---------------------------- MODULE Spec2Model ----------------------------
(***************************************************************************)
(* Model of bin/sbatch_parser.py: the SbatchOptions value object with its  *)
(* to_sbatch_args serializer, and the SbatchParser parsing engine.         *)
(*                                                                         *)
(* A Python str is a sequence of one-character strings, so that split,     *)
(* lstrip, replace, int(), str() and the regular expressions are computed  *)
(* character by character as the interpreter computes them.                *)
(***************************************************************************)
EXTENDS Integers, Sequences, FiniteSets, TLC

VARIABLES
    args,       \* the argument list of the running / last parse call
    i,          \* parse's index into args (1-based here, 0-based in Python)
    options,    \* SbatchParser.options : the SbatchOptions being filled
    errors,     \* SbatchParser.errors
    pc,         \* "idle" (constructed), "scanning", "done" (returned), "exit" (sys.exit(0))
    remainder,  \* second component of parse's return value
    calls,      \* number of parse calls made on this parser object
    phase,      \* "parse": caller's arguments; "reparse": arguments from to_sbatch_args
    first,      \* the model m whose to_sbatch_args() output is being re-parsed
    last        \* what the most recent step of parse did (for stating step properties)

vars == <<args, i, options, errors, pc, remainder, calls, phase, first, last>>

-----------------------------------------------------------------------------
(* Bounds of the model *)

\* longest argument list passed to a parse call by the caller
MaxArgs == 3

\* longest generated option value (the listed time values are longer)
MaxValueLen == 3

\* parse calls made on one parser object in SpecReuse
MaxCalls == 2

\* longest argument list of a second or later call on the same parser object
MaxReuseArgs == 1

-----------------------------------------------------------------------------
(* Optional[...] values: None, or a present value *)

None == <<>>
Some(v) == <<v>>

-----------------------------------------------------------------------------
(* Python str operations *)

Digit == {"0", "1", "2", "3", "4", "5", "6", "7", "8", "9"}

DigitVal(c) ==
    CASE c = "0" -> 0 [] c = "1" -> 1 [] c = "2" -> 2 [] c = "3" -> 3
      [] c = "4" -> 4 [] c = "5" -> 5 [] c = "6" -> 6 [] c = "7" -> 7
      [] c = "8" -> 8 [] c = "9" -> 9

DigitChar(n) ==
    CASE n = 0 -> "0" [] n = 1 -> "1" [] n = 2 -> "2" [] n = 3 -> "3"
      [] n = 4 -> "4" [] n = 5 -> "5" [] n = 6 -> "6" [] n = 7 -> "7"
      [] n = 8 -> "8" [] n = 9 -> "9"

Whitespace == {" ", "\t", "\n", "\r"}

\* s[k:] with a 1-based k
Drop(s, k) == SubSeq(s, k, Len(s))

\* arg.startswith("-")
StartsWithDash(s) == Len(s) >= 1 /\ s[1] = "-"

\* "=" in arg
HasEq(s) == \E k \in 1..Len(s) : s[k] = "="

\* index of the first "=" of a string that has one
FirstEq(s) == CHOOSE k \in 1..Len(s) : s[k] = "=" /\ \A j \in 1..(k - 1) : s[j] # "="

\* arg.rsplit("=", 1): the split at the last "="
RsplitEq(s) ==
    LET k == CHOOSE n \in 1..Len(s) : s[n] = "=" /\ \A j \in (n + 1)..Len(s) : s[j] # "="
    IN  [option |-> SubSeq(s, 1, k - 1), value |-> Drop(s, k + 1)]

\* arg.split("=", 1) of a string that contains "="
SplitEq(s) ==
    [option |-> SubSeq(s, 1, FirstEq(s) - 1), value |-> Drop(s, FirstEq(s) + 1)]

\* option.lstrip("-")
RECURSIVE LstripDash(_)
LstripDash(s) == IF StartsWithDash(s) THEN LstripDash(Tail(s)) ELSE s

\* s.replace("-", "_")
ReplaceDash(s) == [k \in 1..Len(s) |-> IF s[k] = "-" THEN "_" ELSE s[k]]

\* option.lstrip("-").replace("-", "_")
OptionName(option) == ReplaceDash(LstripDash(option))

\* str.strip() as int() applies it to its argument
RECURSIVE LstripWs(_)
LstripWs(s) == IF Len(s) >= 1 /\ s[1] \in Whitespace THEN LstripWs(Tail(s)) ELSE s

RECURSIVE RstripWs(_)
RstripWs(s) ==
    IF Len(s) >= 1 /\ s[Len(s)] \in Whitespace THEN RstripWs(SubSeq(s, 1, Len(s) - 1)) ELSE s

StripWs(s) == RstripWs(LstripWs(s))

\* the digits of an int() literal: digits, single underscores only between digits
IntDigitsOk(d) ==
    /\ Len(d) >= 1
    /\ d[1] \in Digit
    /\ d[Len(d)] \in Digit
    /\ \A k \in 1..Len(d) : d[k] \in Digit \cup {"_"}
    /\ \A k \in 1..(Len(d) - 1) : ~(d[k] = "_" /\ d[k + 1] = "_")

HasSign(t) == Len(t) >= 1 /\ t[1] \in {"+", "-"}

IntDigits(s) == LET t == StripWs(s) IN IF HasSign(t) THEN Tail(t) ELSE t

\* int(value) does not raise ValueError
IntOk(s) == IntDigitsOk(IntDigits(s))

RECURSIVE DigitsValue(_, _)
DigitsValue(d, acc) ==
    IF d = <<>> THEN acc
    ELSE IF Head(d) = "_" THEN DigitsValue(Tail(d), acc)
    ELSE DigitsValue(Tail(d), 10 * acc + DigitVal(Head(d)))

\* int(value), for a value with IntOk(value)
IntValue(s) ==
    LET t == StripWs(s)
        n == DigitsValue(IntDigits(s), 0)
    IN  IF Len(t) >= 1 /\ t[1] = "-" THEN 0 - n ELSE n

RECURSIVE NatStr(_)
NatStr(n) == IF n < 10 THEN <<DigitChar(n)>> ELSE NatStr(n \div 10) \o <<DigitChar(n % 10)>>

\* str(n) of an int, as the f-string of to_sbatch_args formats it
IntStr(n) == IF n < 0 THEN <<"-">> \o NatStr(0 - n) ELSE NatStr(n)

-----------------------------------------------------------------------------
(* re.match(pattern, s) for the patterns of the validators.  A pattern is  *)
(* "^" item* "$"; an item is a character class with a repetition range.    *)

Rep(cs, lo, hi) == [cs |-> cs, lo |-> lo, hi |-> hi, many |-> FALSE]
Plus(cs) == [cs |-> cs, lo |-> 1, hi |-> 1, many |-> TRUE]

\* "$" matches at the end of the string and just before a final newline
AtDollar(s, pos) == pos = Len(s) + 1 \/ (pos = Len(s) /\ s[pos] = "\n")

RECURSIVE MatchFrom(_, _, _, _)
MatchFrom(pat, k, s, pos) ==
    IF k > Len(pat) THEN AtDollar(s, pos)
    ELSE LET left == Len(s) - pos + 1
             top  == IF pat[k].many \/ pat[k].hi > left THEN left ELSE pat[k].hi
         IN  \E n \in pat[k].lo..top :
                /\ \A j \in pos..(pos + n - 1) : s[j] \in pat[k].cs
                /\ MatchFrom(pat, k + 1, s, pos + n)

ReMatch(pat, s) == MatchFrom(pat, 1, s, 1)


-----------------------------------------------------------------------------
(* SbatchOptions *)

IntFields == {"nodes", "ntasks", "cpus_per_task"}

\* the dataclass fields in declaration order, which is also the order of the
\* mapping dict of to_sbatch_args
FieldOrder ==
    <<"nodes", "ntasks", "cpus_per_task", "gres", "time", "partition", "job_name",
      "output", "error", "mem", "mem_per_cpu", "mail_type", "mail_user",
      "dependency", "array", "exclusive", "constraint", "account">>

Fields == {FieldOrder[k] : k \in 1..Len(FieldOrder)}

\* the field name as a str, for comparison with the keys of extra_options
FieldChars ==
    [nodes |-> <<"n","o","d","e","s">>,
     ntasks |-> <<"n","t","a","s","k","s">>,
     cpus_per_task |-> <<"c","p","u","s","_","p","e","r","_","t","a","s","k">>,
     gres |-> <<"g","r","e","s">>,
     time |-> <<"t","i","m","e">>,
     partition |-> <<"p","a","r","t","i","t","i","o","n">>,
     job_name |-> <<"j","o","b","_","n","a","m","e">>,
     output |-> <<"o","u","t","p","u","t">>,
     error |-> <<"e","r","r","o","r">>,
     mem |-> <<"m","e","m">>,
     mem_per_cpu |-> <<"m","e","m","_","p","e","r","_","c","p","u">>,
     mail_type |-> <<"m","a","i","l","_","t","y","p","e">>,
     mail_user |-> <<"m","a","i","l","_","u","s","e","r">>,
     dependency |-> <<"d","e","p","e","n","d","e","n","c","y">>,
     array |-> <<"a","r","r","a","y">>,
     exclusive |-> <<"e","x","c","l","u","s","i","v","e">>,
     constraint |-> <<"c","o","n","s","t","r","a","i","n","t">>,
     account |-> <<"a","c","c","o","u","n","t">>]

\* SbatchOptions(): every field None, extra_options an empty dict.  The dict
\* is the sequence of its items in insertion order.
EmptyOptions ==
    [nodes |-> None, ntasks |-> None, cpus_per_task |-> None, gres |-> None,
     time |-> None, partition |-> None, job_name |-> None, output |-> None,
     error |-> None, mem |-> None, mem_per_cpu |-> None, mail_type |-> None,
     mail_user |-> None, dependency |-> None, array |-> None, exclusive |-> None,
     constraint |-> None, account |-> None, extra_options |-> <<>>]

\* the values _set_option is called with: True, or a str
PyTrue == [flag |-> TRUE, str |-> <<>>]
PyStr(s) == [flag |-> FALSE, str |-> s]

\* str(value)
StrOf(value) == IF value.flag THEN <<"T","r","u","e">> ELSE value.str

\* the keys of a dict
Keys(d) == {d[k].key : k \in 1..Len(d)}

\* d[key] = value: an existing key keeps its place, a new key goes last
DictSet(d, key, value) ==
    IF key \in Keys(d)
    THEN [k \in 1..Len(d) |-> IF d[k].key = key THEN [key |-> key, value |-> value] ELSE d[k]]
    ELSE Append(d, [key |-> key, value |-> value])

\* the mapping dict of to_sbatch_args: attribute -> flag (the separator is "=")
FlagOf ==
    [nodes |-> <<"-","-","n","o","d","e","s">>,
     ntasks |-> <<"-","-","n","t","a","s","k","s">>,
     cpus_per_task |-> <<"-","-","c","p","u","s","-","p","e","r","-","t","a","s","k">>,
     gres |-> <<"-","-","g","r","e","s">>,
     time |-> <<"-","-","t","i","m","e">>,
     partition |-> <<"-","-","p","a","r","t","i","t","i","o","n">>,
     job_name |-> <<"-","-","j","o","b","-","n","a","m","e">>,
     output |-> <<"-","-","o","u","t","p","u","t">>,
     error |-> <<"-","-","e","r","r","o","r">>,
     mem |-> <<"-","-","m","e","m">>,
     mem_per_cpu |-> <<"-","-","m","e","m","-","p","e","r","-","c","p","u">>,
     mail_type |-> <<"-","-","m","a","i","l","-","t","y","p","e">>,
     mail_user |-> <<"-","-","m","a","i","l","-","u","s","e","r">>,
     dependency |-> <<"-","-","d","e","p","e","n","d","e","n","c","y">>,
     array |-> <<"-","-","a","r","r","a","y">>,
     exclusive |-> <<"-","-","e","x","c","l","u","s","i","v","e">>,
     constraint |-> <<"-","-","c","o","n","s","t","r","a","i","n","t">>,
     account |-> <<"-","-","a","c","c","o","u","n","t">>]

\* f"{value}" of a field value
FieldStr(f, v) == IF f \in IntFields THEN IntStr(v) ELSE v

\* FixedArgs with the fields taken from the last declared to the first
RECURSIVE FixedArgsReversed(_, _)
FixedArgsReversed(opts, k) ==
    IF k > Len(FieldOrder) THEN <<>>
    ELSE LET f == FieldOrder[k]
         IN  FixedArgsReversed(opts, k + 1) \o
             (IF opts[f] # None
              THEN <<FlagOf[f] \o <<"=">> \o FieldStr(f, opts[f][1])>>
              ELSE <<>>)

\* the first loop of to_sbatch_args, over mapping.items() from its k-th item
RECURSIVE FixedArgs(_, _)
FixedArgs(opts, k) ==
    IF k > Len(FieldOrder) THEN <<>>
    ELSE LET f == FieldOrder[k]
         IN  (IF opts[f] # None
              THEN <<FlagOf[f] \o <<"=">> \o FieldStr(f, opts[f][1])>>
              ELSE <<>>) \o FixedArgs(opts, k + 1)

\* the second loop of to_sbatch_args, over extra_options.items()
RECURSIVE ExtraArgs(_)
ExtraArgs(d) ==
    IF d = <<>> THEN <<>>
    ELSE (IF Head(d).value.flag
          THEN <<(<<"-","-">> \o Head(d).key)>>
          ELSE <<(<<"-","-">> \o Head(d).key \o <<"=">> \o Head(d).value.str)>>)
         \o ExtraArgs(Tail(d))

\* SbatchOptions.to_sbatch_args
to_sbatch_args(opts) == FixedArgs(opts, 1) \o ExtraArgs(opts.extra_options)

-----------------------------------------------------------------------------
(* SbatchParser *)

OPTION_ALIASES ==
     <<"-","N">> :> "nodes" @@
     <<"-","-","n","o","d","e","s">> :> "nodes" @@
     <<"-","n">> :> "ntasks" @@
     <<"-","-","n","t","a","s","k","s">> :> "ntasks" @@
     <<"-","c">> :> "cpus_per_task" @@
     <<"-","-","c","p","u","s","-","p","e","r","-","t","a","s","k">> :> "cpus_per_task" @@
     <<"-","-","g","r","e","s">> :> "gres" @@
     <<"-","-","t","i","m","e">> :> "time" @@
     <<"-","p">> :> "partition" @@
     <<"-","-","p","a","r","t","i","t","i","o","n">> :> "partition" @@
     <<"-","J">> :> "job_name" @@
     <<"-","-","j","o","b","-","n","a","m","e">> :> "job_name" @@
     <<"-","o">> :> "output" @@
     <<"-","-","o","u","t","p","u","t">> :> "output" @@
     <<"-","e">> :> "error" @@
     <<"-","-","e","r","r","o","r">> :> "error" @@
     <<"-","-","m","e","m">> :> "mem" @@
     <<"-","-","m","e","m","-","p","e","r","-","c","p","u">> :> "mem_per_cpu" @@
     <<"-","-","m","a","i","l","-","t","y","p","e">> :> "mail_type" @@
     <<"-","-","m","a","i","l","-","u","s","e","r">> :> "mail_user" @@
     <<"-","-","d","e","p","e","n","d","e","n","c","y">> :> "dependency" @@
     <<"-","-","a","r","r","a","y">> :> "array" @@
     <<"-","-","e","x","c","l","u","s","i","v","e">> :> "exclusive" @@
     <<"-","-","c","o","n","s","t","r","a","i","n","t">> :> "constraint" @@
     <<"-","A">> :> "account" @@
     <<"-","-","a","c","c","o","u","n","t">> :> "account"

\* arg in self.OPTION_ALIASES
IsAlias(option) == option \in DOMAIN OPTION_ALIASES

\* _option_takes_value with no flag options
option_always_takes_value(canonical) == canonical \notin {}

\* _option_takes_value
option_takes_value(canonical) == canonical \notin {"exclusive"}

\* the entries of self.errors
Error(kind, option, value) == [kind |-> kind, option |-> option, value |-> value]

\* the time patterns of _validate_time_format
TimeMinutes == <<Plus(Digit)>>
TimeDays ==
    <<Plus(Digit), Rep({"-"}, 1, 1), Rep(Digit, 1, 2), Rep({":"}, 1, 1),
      Rep(Digit, 2, 2), Rep({":"}, 1, 1), Rep(Digit, 2, 2)>>
TimeHours ==
    <<Rep(Digit, 1, 2), Rep({":"}, 1, 1), Rep(Digit, 2, 2), Rep({":"}, 1, 1),
      Rep(Digit, 2, 2)>>

\* _validate_time_format returns True
validate_time_format(s) ==
    ReMatch(TimeMinutes, s) \/ ReMatch(TimeDays, s) \/ ReMatch(TimeHours, s)

\* the memory pattern of _validate_memory_format, under re.IGNORECASE
MemoryPattern == <<Plus(Digit), Rep({"K", "M", "G", "T", "k", "m", "g", "t"}, 0, 1)>>

\* _validate_memory_format returns True
validate_memory_format(s) == ReMatch(MemoryPattern, s)

\* int(value) does not raise ValueError (int(True) is 1)
IntOfOk(value) == value.flag \/ IntOk(value.str)
IntOf(value) == IF value.flag THEN 1 ELSE IntValue(value.str)

\* _set_option, "if not canonical": self.options.extra_options[option_name] = value
SetExtra(opts, errs, option, value) ==
    [options |-> [opts EXCEPT !.extra_options =
                     DictSet(opts.extra_options, OptionName(option), value)],
     errors  |-> errs]

\* SetInt with the field cleared when the conversion fails
SetIntClears(opts, errs, canonical, option, value) ==
    IF IntOfOk(value)
    THEN [options |-> [opts EXCEPT ![canonical] = Some(IntOf(value))], errors |-> errs]
    ELSE [options |-> [opts EXCEPT ![canonical] = None],
          errors  |-> Append(errs, Error("invalid_value", option, StrOf(value)))]

\* _set_option, nodes / ntasks / cpus_per_task: the field is assigned int(value);
\* a ValueError leaves before the assignment and is caught by the except clause
SetInt(opts, errs, canonical, option, value) ==
    IF IntOfOk(value)
    THEN [options |-> [opts EXCEPT ![canonical] = Some(IntOf(value))], errors |-> errs]
    ELSE [options |-> opts,
          errors  |-> Append(errs, Error("invalid_value", option, StrOf(value)))]

\* SetTime with a value that fails the grammar not assigned over an earlier one
SetTimeKeepsValid(opts, errs, value) ==
    [options |-> IF validate_time_format(value.str) \/ opts.time = None
                 THEN [opts EXCEPT !.time = Some(StrOf(value))]
                 ELSE opts,
     errors  |-> IF validate_time_format(value.str) THEN errs
                 ELSE Append(errs, Error("time_format", <<>>, value.str))]

\* SetTime with the validator run twice, each run appending its error
SetTimeTwice(opts, errs, value) ==
    [options |-> [opts EXCEPT !.time = Some(StrOf(value))],
     errors  |-> IF validate_time_format(value.str) THEN errs
                 ELSE errs \o << Error("time_format", <<>>, value.str),
                                 Error("time_format", <<>>, value.str) >>]

\* _set_option, time: self._validate_time_format(value), then the assignment
SetTime(opts, errs, value) ==
    [options |-> [opts EXCEPT !.time = Some(StrOf(value))],
     errors  |-> IF validate_time_format(value.str) THEN errs
                 ELSE Append(errs, Error("time_format", <<>>, value.str))]

\* SetMemory with the assignment skipped when the validator rejects the value
SetMemoryRejects(opts, errs, canonical, value) ==
    IF validate_memory_format(value.str)
    THEN [options |-> [opts EXCEPT ![canonical] = Some(StrOf(value))], errors |-> errs]
    ELSE [options |-> opts,
          errors  |-> Append(errs, Error("memory_format", <<>>, value.str))]

\* _set_option, mem / mem_per_cpu: self._validate_memory_format(value), then
\* the assignment
SetMemory(opts, errs, canonical, value) ==
    [options |-> [opts EXCEPT ![canonical] = Some(StrOf(value))],
     errors  |-> IF validate_memory_format(value.str) THEN errs
                 ELSE Append(errs, Error("memory_format", <<>>, value.str))]

\* _set_option, exclusive
SetExclusive(opts, errs, value) ==
    [options |-> [opts EXCEPT !.exclusive =
                     IF ~value.flag THEN Some(value.str) ELSE Some(<<"u","s","e","r">>)],
     errors  |-> errs]

\* _set_option, the plain string fields: the field is assigned str(value)
SetStr(opts, errs, canonical, value) ==
    [options |-> [opts EXCEPT ![canonical] = Some(StrOf(value))], errors |-> errs]

\* _set_option(option, value, index): the options and errors it leaves
\* (the index it returns is its argument)
SetOption(opts, errs, option, value) ==
    IF ~IsAlias(option) THEN SetExtra(opts, errs, option, value)
    ELSE LET canonical == OPTION_ALIASES[option]
         IN  IF canonical \in IntFields THEN SetInt(opts, errs, canonical, option, value)
             ELSE IF canonical = "time" THEN SetTime(opts, errs, value)
             ELSE IF canonical \in {"mem", "mem_per_cpu"}
                  THEN SetMemory(opts, errs, canonical, value)
             ELSE IF canonical = "exclusive" THEN SetExclusive(opts, errs, value)
             ELSE SetStr(opts, errs, canonical, value)

\* TakeValue with the option's own spelling passed on as the value
TakeValueOfArg(opts, errs, a, idx) ==
    IF idx + 1 > Len(a)
    THEN [options |-> opts,
          errors  |-> Append(errs, Error("requires_value", a[idx], <<>>)),
          index   |-> idx + 1]
    ELSE IF StartsWithDash(a[idx + 1])
    THEN [options |-> opts,
          errors  |-> Append(errs, Error("requires_value_got", a[idx], a[idx + 1])),
          index   |-> idx + 1]
    ELSE LET r == SetOption(opts, errs, a[idx], PyStr(a[idx]))
         IN  [options |-> r.options, errors |-> r.errors, index |-> idx + 2]

\* TakeValue with the rejected next argument skipped as well
TakeValueSkipsDash(opts, errs, a, idx) ==
    IF idx + 1 > Len(a)
    THEN [options |-> opts,
          errors  |-> Append(errs, Error("requires_value", a[idx], <<>>)),
          index   |-> idx + 1]
    ELSE IF StartsWithDash(a[idx + 1])
    THEN [options |-> opts,
          errors  |-> Append(errs, Error("requires_value_got", a[idx], a[idx + 1])),
          index   |-> idx + 2]
    ELSE LET r == SetOption(opts, errs, a[idx], PyStr(a[idx + 1]))
         IN  [options |-> r.options, errors |-> r.errors, index |-> idx + 2]

\* TakeValue with the index advanced by one after the value has been assigned
TakeValueAdvancesOne(opts, errs, a, idx) ==
    IF idx + 1 > Len(a)
    THEN [options |-> opts,
          errors  |-> Append(errs, Error("requires_value", a[idx], <<>>)),
          index   |-> idx + 1]
    ELSE IF StartsWithDash(a[idx + 1])
    THEN [options |-> opts,
          errors  |-> Append(errs, Error("requires_value_got", a[idx], a[idx + 1])),
          index   |-> idx + 1]
    ELSE LET r == SetOption(opts, errs, a[idx], PyStr(a[idx + 1]))
         IN  [options |-> r.options, errors |-> r.errors, index |-> idx + 1]

\* _parse_option, an alias that takes a value, given without "=": the next
\* argument must exist and must not start with "-"
TakeValue(opts, errs, a, idx) ==
    IF idx + 1 > Len(a)
    THEN [options |-> opts,
          errors  |-> Append(errs, Error("requires_value", a[idx], <<>>)),
          index   |-> idx + 1]
    ELSE IF StartsWithDash(a[idx + 1])
    THEN [options |-> opts,
          errors  |-> Append(errs, Error("requires_value_got", a[idx], a[idx + 1])),
          index   |-> idx + 1]
    ELSE LET r == SetOption(opts, errs, a[idx], PyStr(a[idx + 1]))
         IN  [options |-> r.options, errors |-> r.errors, index |-> idx + 2]

\* StoreUnknown with a following argument without a dash taken as the value
StoreUnknownTakesValue(opts, errs, arg, idx) ==
    IF idx + 1 <= Len(args) /\ ~StartsWithDash(args[idx + 1])
    THEN [options |-> [opts EXCEPT !.extra_options =
                          DictSet(opts.extra_options, OptionName(arg), PyStr(args[idx + 1]))],
          errors  |-> errs,
          index   |-> idx + 2]
    ELSE [options |-> [opts EXCEPT !.extra_options =
                          DictSet(opts.extra_options, OptionName(arg), PyTrue)],
          errors  |-> errs,
          index   |-> idx + 1]

\* _parse_option, an argument that is no alias: stored in extra_options
StoreUnknown(opts, errs, arg, idx) ==
    [options |-> [opts EXCEPT !.extra_options =
                     IF HasEq(arg)
                     THEN DictSet(opts.extra_options, OptionName(SplitEq(arg).option),
                                  PyStr(SplitEq(arg).value))
                     ELSE DictSet(opts.extra_options, OptionName(arg), PyTrue)],
     errors  |-> errs,
     index   |-> idx + 1]

\* _parse_option(arg, args, index, []) with arg = a[idx]: the options and
\* errors it leaves and the index it returns
ParseOption(opts, errs, a, idx) ==
    LET arg == a[idx]
    IN  IF HasEq(arg)
        THEN LET r == SetOption(opts, errs, SplitEq(arg).option, PyStr(SplitEq(arg).value))
             IN  [options |-> r.options, errors |-> r.errors, index |-> idx + 1]
        ELSE IF IsAlias(arg)
        THEN IF option_takes_value(OPTION_ALIASES[arg])
             THEN TakeValue(opts, errs, a, idx)
             ELSE LET r == SetOption(opts, errs, arg, PyTrue)
                  IN  [options |-> r.options, errors |-> r.errors, index |-> idx + 1]
        ELSE StoreUnknown(opts, errs, arg, idx)

-----------------------------------------------------------------------------
(* Argument lists given to parse *)

\* option and positional tokens
Tokens ==
    { <<"-","N">>,                                   \* -N
      <<"-","N","=","4","X">>,                       \* -N=4X
      <<"2">>,                                       \* 2
      <<"-","3">>,                                   \* -3
      <<"4","X">>,                                   \* 4X
      <<"-","-">>,                                   \* --
      <<"-","h">>,                                   \* -h
      <<"-","-","m","e","m">>,                       \* --mem
      <<"-","-","m","e","m","=","4","X">>,           \* --mem=4X
      <<"-","n","o","d","e","s","=","3">>,           \* -nodes=3
      <<"-","-","e","x","c","l","u","s","i","v","e">>,      \* --exclusive
      <<"-","-","f","o","o","-","b","a","r">>,              \* --foo-bar
      <<"-","-","f","o","o","-","b","a","r","=","a","=","b">>,  \* --foo-bar=a=b
      <<"-","h","e","l","p">>,                       \* -help
      <<"-">> }                                      \* -

SeqsUpTo(S, n) == UNION {[1..k -> S] : k \in 0..n}

TokenSeqs == SeqsUpTo(Tokens, MaxArgs)

\* one option of the integer, time, memory and exclusive fields followed by
\* a generated string, in the separate and the inline form
ValueOptions ==
    { <<"-","N">>, <<"-","-","n","t","a","s","k","s">>, <<"-","c">>,
      <<"-","-","t","i","m","e">>, <<"-","-","m","e","m">>,
      <<"-","-","m","e","m","-","p","e","r","-","c","p","u">>,
      <<"-","-","e","x","c","l","u","s","i","v","e">> }

ValueChars == {"1", "-", "+", "_", ":", "g", "X", "\n"}

ValueStrings ==
    SeqsUpTo(ValueChars, MaxValueLen)
        \cup { <<"1",":","0","1",":","0","0">>,              \* 1:01:00
               <<"1","1",":","6","1",":","0","0">>,          \* 11:61:00
               <<"1","-","1",":","0","0",":","0","0">>,      \* 1-1:00:00
               <<"1",":","1",":","0","0">>,                  \* 1:1:00
               <<"1","0","0",":","0","0",":","0","0">>,      \* 100:00:00
               <<"1","=","1">> }                             \* 1=1

ValueArgs ==
    { <<o, v>> : o \in ValueOptions, v \in ValueStrings }
        \cup { <<o \o <<"=">> \o v>> : o \in ValueOptions, v \in ValueStrings }

\* two assignments in one argument list, to the same field or to different
\* ones, each in the separate or the inline form
RepeatOptions ==
    { <<"-","N">>, <<"-","-","n","o","d","e","s">>, <<"-","p">>,
      <<"-","-","p","a","r","t","i","t","i","o","n">>, <<"-","-","t","i","m","e">> }

RepeatValues == { <<"2">>, <<"3">>, <<"4","X">> }

RepeatForms ==
    { <<o, v>> : o \in RepeatOptions, v \in RepeatValues }
        \cup { <<o \o <<"=">> \o v>> : o \in RepeatOptions, v \in RepeatValues }

RepeatArgs == { x \o y : x \in RepeatForms, y \in RepeatForms }

CallerArgs == TokenSeqs \cup ValueArgs \cup RepeatArgs

-----------------------------------------------------------------------------
(* The parser object and the steps of parse *)

Step(op) == [op |-> op, options |-> options, errors |-> errors, i |-> i]

\* SbatchParser(): self.options = SbatchOptions(), self.errors = []
Init ==
    /\ args = <<>>
    /\ i = 1
    /\ options = EmptyOptions
    /\ errors = <<>>
    /\ pc = "idle"
    /\ remainder = <<>>
    /\ calls = 0
    /\ phase = "parse"
    /\ first = EmptyOptions
    /\ last = [op |-> "init", options |-> EmptyOptions, errors |-> <<>>, i |-> 1]

\* parse(a) is entered: i = 0; self.options and self.errors are what they are
Enter(a) ==
    /\ args' = a
    /\ i' = 1
    /\ pc' = "scanning"
    /\ remainder' = <<>>
    /\ calls' = calls + 1
    /\ last' = Step("call")
    /\ UNCHANGED <<options, errors, phase, first>>

\* the first parse call on a new parser
Call ==
    /\ pc = "idle"
    /\ \E a \in CallerArgs : Enter(a)

\* a further parse call on the same parser object, after the previous one returned
CallAgain ==
    /\ pc = "done"
    /\ phase = "parse"
    /\ calls < MaxCalls
    /\ \E a \in SeqsUpTo(Tokens, MaxReuseArgs) : Enter(a)

Scanning == pc = "scanning" /\ i <= Len(args)

\* Positional with the remainder starting after the positional token
PositionalSkips ==
    /\ Scanning
    /\ ~StartsWithDash(args[i])
    /\ pc' = "done"
    /\ remainder' = Drop(args, i + 1)
    /\ last' = Step("positional")
    /\ UNCHANGED <<args, i, options, errors, calls, phase, first>>

\* if not arg.startswith("-"): return self.options, args[i:]
Positional ==
    /\ Scanning
    /\ ~StartsWithDash(args[i])
    /\ pc' = "done"
    /\ remainder' = Drop(args, i)
    /\ last' = Step("positional")
    /\ UNCHANGED <<args, i, options, errors, calls, phase, first>>

\* Terminator with the terminator left in the remainder
TerminatorKept ==
    /\ Scanning
    /\ StartsWithDash(args[i])
    /\ args[i] = <<"-","-">>
    /\ pc' = "done"
    /\ remainder' = Drop(args, i)
    /\ last' = Step("terminator")
    /\ UNCHANGED <<args, i, options, errors, calls, phase, first>>

\* if arg == "--": return self.options, args[i+1:]
Terminator ==
    /\ Scanning
    /\ StartsWithDash(args[i])
    /\ args[i] = <<"-","-">>
    /\ pc' = "done"
    /\ remainder' = Drop(args, i + 1)
    /\ last' = Step("terminator")
    /\ UNCHANGED <<args, i, options, errors, calls, phase, first>>

\* IsHelp with the long spelling not recognised
IsHelpShortOnly(arg) == arg \in { <<"-","h">> }

IsHelp(arg) == arg \in { <<"-","h">>, <<"-","-","h","e","l","p">> }

\* if arg in ("-h", "--help"): self._print_help(); sys.exit(0)
Help ==
    /\ Scanning
    /\ StartsWithDash(args[i])
    /\ args[i] # <<"-","-">>
    /\ IsHelp(args[i])
    /\ pc' = "exit"
    /\ last' = Step("help")
    /\ UNCHANGED <<args, i, options, errors, remainder, calls, phase, first>>

\* Option with parse returning as soon as an error has been appended
OptionStopsOnError ==
    /\ Scanning
    /\ StartsWithDash(args[i])
    /\ args[i] # <<"-","-">>
    /\ ~IsHelp(args[i])
    /\ LET r == ParseOption(options, errors, args, i)
       IN  /\ options' = r.options
           /\ errors' = r.errors
           /\ i' = r.index
           /\ pc' = IF r.errors # errors THEN "done" ELSE pc
    /\ last' = Step("option")
    /\ UNCHANGED <<args, remainder, calls, phase, first>>

\* i = self._parse_option(arg, args, i, [])
Option ==
    /\ Scanning
    /\ StartsWithDash(args[i])
    /\ args[i] # <<"-","-">>
    /\ ~IsHelp(args[i])
    /\ LET r == ParseOption(options, errors, args, i)
       IN  /\ options' = r.options
           /\ errors' = r.errors
           /\ i' = r.index
    /\ last' = Step("option")
    /\ UNCHANGED <<args, pc, remainder, calls, phase, first>>

\* the while loop ends: return self.options, []
Exhausted ==
    /\ pc = "scanning"
    /\ i > Len(args)
    /\ pc' = "done"
    /\ remainder' = <<>>
    /\ last' = Step("exhausted")
    /\ UNCHANGED <<args, i, options, errors, calls, phase, first>>

\* m = the returned model; SbatchParser().parse(m.to_sbatch_args()) is entered
RoundTrip ==
    /\ pc = "done"
    /\ phase = "parse"
    /\ first' = options
    /\ args' = to_sbatch_args(options)
    /\ options' = EmptyOptions
    /\ errors' = <<>>
    /\ i' = 1
    /\ pc' = "scanning"
    /\ remainder' = <<>>
    /\ calls' = 1
    /\ phase' = "reparse"
    /\ last' = Step("roundtrip")

Next ==
    \/ Call
    \/ Positional
    \/ Terminator
    \/ Help
    \/ Option
    \/ Exhausted
    \/ RoundTrip

Spec == Init /\ [][Next]_vars

\* the body of the while loop and its exit run to completion once parse has
\* been entered: no step of parse waits for anything
ParseStep == Positional \/ Terminator \/ Help \/ Option \/ Exhausted

\* one argument of each kind that parse and _parse_option tell apart: a
\* value-bearing alias, an argument without a dash, the terminator, a help
\* request, the inline form, an unknown option and the flag alias
KindTokens ==
    { <<"-","N">>, <<"2">>, <<"-","-">>, <<"-","h">>,
      <<"-","-","m","e","m","=","4","X">>,
      <<"-","-","f","o","o","-","b","a","r">>,
      <<"-","-","e","x","c","l","u","s","i","v","e">> }

\* the first parse call on a new parser, with arguments of these kinds
CallKinds ==
    /\ pc = "idle"
    /\ \E a \in SeqsUpTo(KindTokens, MaxArgs) : Enter(a)

NextFair ==
    \/ CallKinds
    \/ Positional
    \/ Terminator
    \/ Help
    \/ Option
    \/ Exhausted
    \/ RoundTrip

SpecFair == Init /\ [][NextFair]_vars /\ WF_vars(ParseStep)

NextReuse ==
    \/ Call
    \/ CallAgain
    \/ Positional
    \/ Terminator
    \/ Help
    \/ Option
    \/ Exhausted

SpecReuse == Init /\ [][NextReuse]_vars

-----------------------------------------------------------------------------
(* Properties.  last holds the options, errors and index a step started    *)
(* from, so args[last.i] is the argument the step examined.                *)

\* the last step examined args[last.i] in the loop of parse
Examined == last.op \in {"positional", "terminator", "help", "option"}

\* errors is last.errors with exactly one entry appended
OneErrorAppended ==
    /\ Len(errors) = Len(last.errors) + 1
    /\ SubSeq(errors, 1, Len(last.errors)) = last.errors

\* the last step dispatched "--option=value" with a spelling of the alias table
LastInline ==
    /\ last.op = "option"
    /\ HasEq(args[last.i])
    /\ SplitEq(args[last.i]).option \in DOMAIN OPTION_ALIASES

\* the last step dispatched a value-bearing alias followed by a value argument
LastSeparate ==
    /\ last.op = "option"
    /\ ~HasEq(args[last.i])
    /\ args[last.i] \in DOMAIN OPTION_ALIASES
    /\ OPTION_ALIASES[args[last.i]] # "exclusive"
    /\ last.i < Len(args)
    /\ ~StartsWithDash(args[last.i + 1])

\* the field and the value of the assignment made by such a step
LastField ==
    IF HasEq(args[last.i]) THEN OPTION_ALIASES[SplitEq(args[last.i]).option]
    ELSE OPTION_ALIASES[args[last.i]]
LastValue ==
    IF HasEq(args[last.i]) THEN SplitEq(args[last.i]).value ELSE args[last.i + 1]

FixedEqual(a, b) == \A f \in Fields : a[f] = b[f]

\* C1: when the re-parse of m.to_sbatch_args() by a new parser has returned,
\* every fixed field has the value it has in m (or is unset as in m).
C1_RoundTripFixed ==
    (phase = "reparse" /\ pc = "done") => FixedEqual(options, first)

\* C2: no key of extra_options is the name of a fixed field that is set, and
\* no key occurs twice in extra_options.
C2_NameInOnePlace ==
    /\ \A f \in Fields :
          options[f] # None => FieldChars[f] \notin Keys(options.extra_options)
    /\ \A j, k \in 1..Len(options.extra_options) :
          options.extra_options[j].key = options.extra_options[k].key => j = k

\* C3: every parse call, also a second one on the same parser object, starts
\* with all fixed fields unset, no extra options and no errors.
C3_ParseStartsEmpty ==
    last.op = "call" => (options = EmptyOptions /\ errors = <<>>)

\* parse(["-N", v]) has returned, for a v that int() accepts
NodesCall ==
    /\ phase = "parse"
    /\ pc = "done"
    /\ Len(args) = 2
    /\ args[1] = <<"-","N">>
    /\ IntOk(args[2])

\* C4 as stated: for every v that int() accepts, parse(["-N", v]) yields
\* nodes = int(v) and no error.
C4_Original ==
    NodesCall => (options.nodes = Some(IntValue(args[2])) /\ errors = <<>>)

\* C4 amended: for every v that int() accepts and that does not begin with a
\* dash, parse(["-N", v]) yields nodes = int(v) and no error; int("1_1") is 11,
\* int("+1") is 1 and int("1\n") is 1.
C4_NodesFromValidInt ==
    (NodesCall /\ ~StartsWithDash(args[2])) =>
        /\ options.nodes = Some(IntValue(args[2]))
        /\ errors = <<>>
        /\ args[2] = <<"1","_","1">> => options.nodes = Some(11)
        /\ args[2] = <<"+","1">> => options.nodes = Some(1)
        /\ args[2] = <<"1","\n">> => options.nodes = Some(1)

C4_Witness ==
    NodesCall /\ args[2] = <<"1","_","1">> /\ options.nodes = Some(11) /\ errors = <<>>

\* C5: a step that examines an argument not beginning with a dash ends the
\* parse with the remainder args[i:], the model and the errors as they were.
C5_PositionalStop ==
    (Examined /\ ~StartsWithDash(args[last.i])) =>
        /\ pc = "done"
        /\ remainder = Drop(args, last.i)
        /\ options = last.options
        /\ errors = last.errors

\* a stop after an option was parsed, with "-h" left in the remainder
C5_Witness ==
    /\ last.op = "positional"
    /\ last.i > 1
    /\ Len(remainder) = 2
    /\ remainder[2] = <<"-","h">>
    /\ options # EmptyOptions

\* C6: a step that examines "--" ends the parse with the remainder args[i+1:],
\* the model and the errors as they were.
C6_Terminator ==
    (Examined /\ args[last.i] = <<"-","-">>) =>
        /\ pc = "done"
        /\ remainder = Drop(args, last.i + 1)
        /\ options = last.options
        /\ errors = last.errors

\* a stop at "--" after an option was parsed, with an option left in the remainder
C6_Witness ==
    /\ last.op = "terminator"
    /\ last.i > 1
    /\ remainder = << <<"-","N","=","4","X">> >>
    /\ options # EmptyOptions
    /\ errors = <<>>

\* C7: a step that dispatches an option leaves the parse scanning, whether or
\* not it appended an error; a parse returns only at a positional argument, at
\* "--" or at the end of the arguments, and exits only at "-h" or "--help".
C7_NoShortCircuit ==
    /\ last.op = "option" => pc = "scanning"
    /\ pc = "done" =>
          \/ last.op = "positional" /\ ~StartsWithDash(args[last.i])
          \/ last.op = "terminator" /\ args[last.i] = <<"-","-">>
          \/ last.op = "exhausted" /\ last.i > Len(args)
    /\ pc = "exit" =>
          /\ last.op = "help"
          /\ args[last.i] \in { <<"-","h">>, <<"-","-","h","e","l","p">> }

\* an option was assigned after an earlier argument had produced an error
C7_Witness ==
    /\ phase = "parse"
    /\ last.op = "option"
    /\ last.i = 2
    /\ last.errors # <<>>
    /\ options.exclusive # None
    /\ pc = "scanning"

\* args[k] is a value-bearing alias without "=" that is the last argument or
\* is followed by an argument beginning with a dash
MissingValueAt(k) ==
    /\ ~HasEq(args[k])
    /\ args[k] \in DOMAIN OPTION_ALIASES
    /\ OPTION_ALIASES[args[k]] # "exclusive"
    /\ (k = Len(args) \/ StartsWithDash(args[k + 1]))

\* C8: dispatching such an option appends exactly one "requires a value"
\* error, changes nothing in the model and advances by one argument.
C8_MissingValue ==
    (last.op = "option" /\ MissingValueAt(last.i)) =>
        /\ OneErrorAppended
        /\ errors[Len(errors)].kind \in {"requires_value", "requires_value_got"}
        /\ errors[Len(errors)].option = args[last.i]
        /\ options = last.options
        /\ i = last.i + 1
        /\ pc = "scanning"

\* the option was followed by a dash argument, which is the next one examined
C8_Witness ==
    /\ last.op = "option"
    /\ MissingValueAt(last.i)
    /\ last.i < Len(args)
    /\ i = last.i + 1
    /\ Len(errors) = 1

\* the validator of a time or memory field accepts v
GrammarOk(f, v) ==
    IF f = "time" THEN validate_time_format(v) ELSE validate_memory_format(v)

IntFailure ==
    /\ LastInline \/ LastSeparate
    /\ LastField \in IntFields
    /\ ~IntOk(LastValue)

\* C10 as stated: such an assignment appends exactly one error and the field
\* is unset afterwards.
C10_Original ==
    IntFailure => (OneErrorAppended /\ options[LastField] = None)

\* C10 amended: such an assignment appends exactly one error and leaves the
\* field as it was before the assignment: unset if it was unset, and holding
\* the earlier value if an earlier assignment had set it.
C10_IntFailureKeepsField ==
    IntFailure =>
        /\ OneErrorAppended
        /\ errors[Len(errors)].kind = "invalid_value"
        /\ options[LastField] = last.options[LastField]

\* a failed conversion after the field had been set
C10_Witness ==
    /\ IntFailure
    /\ last.options[LastField] # None
    /\ options[LastField] = last.options[LastField]

\* the least index of seq at which P holds, Len(seq) + 1 when there is none
FirstIndex(seq, P(_, _)) ==
    IF \E k \in 1..Len(seq) : P(seq, k)
    THEN CHOOSE k \in 1..Len(seq) : P(seq, k) /\ \A j \in 1..(k - 1) : ~P(seq, j)
    ELSE Len(seq) + 1

\* a[k] is a value-bearing alias given without "="
ValueAliasAt(a, k) ==
    /\ ~HasEq(a[k])
    /\ a[k] \in DOMAIN OPTION_ALIASES
    /\ OPTION_ALIASES[a[k]] # "exclusive"

\* a[k] is "--", or is an argument without a leading dash that no
\* value-bearing alias before it takes as its value
StopsAt(a, k) ==
    \/ a[k] = <<"-","-">>
    \/ ~StartsWithDash(a[k]) /\ (k = 1 \/ ~ValueAliasAt(a, k - 1))

HelpAt(a, k) == a[k] \in { <<"-","h">>, <<"-","-","h","e","l","p">> }

\* C11: a parse ends in the help exit exactly when "-h" or "--help" occurs
\* before the first positional argument and before "--"; when the parse
\* returns at a positional argument or at "--", every argument from the
\* positional on (after the "--") is in the remainder, help requests included.
C11_HelpExit ==
    (pc \in {"done", "exit"}) =>
        /\ pc = "exit" <=> FirstIndex(args, HelpAt) < FirstIndex(args, StopsAt)
        /\ pc = "exit" => last.i = FirstIndex(args, HelpAt)
        /\ pc = "done" =>
              /\ last.i = FirstIndex(args, StopsAt)
              /\ remainder =
                    Drop(args, IF last.op = "terminator" THEN last.i + 1 ELSE last.i)

\* the exit at a "-h" that follows an option and its value
C11_Witness ==
    /\ pc = "exit"
    /\ phase = "parse"
    /\ args = << <<"-","N">>, <<"2">>, <<"-","h">> >>
    /\ options.nodes = Some(2)

\* a "-h" after "--" is returned in the remainder
C11_WitnessRemainder ==
    /\ pc = "done"
    /\ last.op = "terminator"
    /\ remainder = << <<"-","h">> >>

\* "--" and the field name with "-" for "_": the long flag of a fixed field
LongFlag(f) ==
    <<"-","-">> \o [k \in 1..Len(FieldChars[f]) |->
                       IF FieldChars[f][k] = "_" THEN "-" ELSE FieldChars[f][k]]

\* the fixed fields that are set in m, in the declared order
SetFieldSeq(m) == SelectSeq(FieldOrder, LAMBDA f : m[f] # None)

\* out is: one "--flag=value" per set field of m in the declared order, then
\* one argument beginning with "--key" per item of m.extra_options
ExportShape(out, m) ==
    LET fs == SetFieldSeq(m)
        n  == Len(fs)
    IN  /\ Len(out) = n + Len(m.extra_options)
        /\ \A k \in 1..n : out[k] = LongFlag(fs[k]) \o <<"=">> \o FieldStr(fs[k], m[fs[k]][1])
        /\ \A j \in 1..Len(m.extra_options) :
              LET key == m.extra_options[j].key
              IN  /\ Len(out[n + j]) >= Len(key) + 2
                  /\ SubSeq(out[n + j], 1, Len(key) + 2) = <<"-","-">> \o key

\* C12: to_sbatch_args emits exactly one "--flag=value" argument for each
\* fixed field that is set and none for an unset one, in the declared field
\* order whatever the order on input, and before every extra_options argument.
C12_ExportOrder ==
    /\ (pc = "done" /\ phase = "parse") => ExportShape(to_sbatch_args(options), options)
    /\ last.op = "roundtrip" => ExportShape(args, first)

\* exclusive was given before nodes and is exported after it
C12_Witness ==
    /\ pc = "done"
    /\ phase = "parse"
    /\ args = << <<"-","-","e","x","c","l","u","s","i","v","e">>, <<"-","N">>, <<"2">> >>
    /\ to_sbatch_args(options) =
          << <<"-","-","n","o","d","e","s","=","2">>,
             <<"-","-","e","x","c","l","u","s","i","v","e","=","u","s","e","r">> >>

\* the same keys with the same values (True, or the same string)
ExtraEqual(a, b) ==
    {<<a[k].key, a[k].value>> : k \in 1..Len(a)} = {<<b[k].key, b[k].value>> : k \in 1..Len(b)}

\* C13: when the re-parse of m.to_sbatch_args() by a new parser has returned,
\* extra_options has the keys and values it has in m.
C13_RoundTripExtras ==
    (phase = "reparse" /\ pc = "done") =>
        ExtraEqual(options.extra_options, first.extra_options)

\* a[k] begins with a dash, has no "=", and is neither "--", a help request
\* nor a spelling of the alias table
UnknownFlagAt(a, k) ==
    /\ StartsWithDash(a[k])
    /\ ~HasEq(a[k])
    /\ a[k] \notin DOMAIN OPTION_ALIASES
    /\ ~StopsAt(a, k)
    /\ ~HelpAt(a, k)

\* C14: dispatching an unrecognized option without "=" stores True under its
\* canonical name ("--foo-bar" gives "foo_bar"), changes nothing else and
\* advances by one argument; an argument without a dash that follows it is not
\* consumed: the next step examines it and returns with it first in the
\* remainder.
C14_UnknownIsFlag ==
    /\ (last.op = "option" /\ UnknownFlagAt(args, last.i)) =>
          /\ options = [last.options EXCEPT !.extra_options =
                           DictSet(last.options.extra_options,
                                   OptionName(args[last.i]), PyTrue)]
          /\ args[last.i] = <<"-","-","f","o","o","-","b","a","r">> =>
                \E k \in 1..Len(options.extra_options) :
                    options.extra_options[k] =
                        [key |-> <<"f","o","o","_","b","a","r">>, value |-> PyTrue]
          /\ errors = last.errors
          /\ i = last.i + 1
          /\ pc = "scanning"
    /\ \A k \in 1..(Len(args) - 1) :
          (UnknownFlagAt(args, k) /\ ~StartsWithDash(args[k + 1])
              /\ pc \in {"done", "exit"} /\ last.i > k) =>
                /\ pc = "done"
                /\ last.op = "positional"
                /\ last.i = k + 1
                /\ remainder = Drop(args, k + 1)

\* "--foo-bar 2": the flag is stored and "2" is returned as the remainder
C14_Witness ==
    /\ pc = "done"
    /\ last.op = "positional"
    /\ args = << <<"-","-","f","o","o","-","b","a","r">>, <<"2">> >>
    /\ remainder = << <<"2">> >>
    /\ options.extra_options = <<[key |-> <<"f","o","o","_","b","a","r">>, value |-> PyTrue]>>

ExclusiveFlag == <<"-","-","e","x","c","l","u","s","i","v","e">>

\* C15: a bare "--exclusive" stores "user" in the exclusive field, appends no
\* error and advances by one argument, whatever the next argument is;
\* "--exclusive=s" stores the string s as it is written.
C15_Exclusive ==
    /\ (last.op = "option" /\ args[last.i] = ExclusiveFlag) =>
          /\ options = [last.options EXCEPT !.exclusive = Some(<<"u","s","e","r">>)]
          /\ errors = last.errors
          /\ i = last.i + 1
    /\ (last.op = "option" /\ Len(args[last.i]) >= 12
            /\ SubSeq(args[last.i], 1, 12) = ExclusiveFlag \o <<"=">>) =>
          /\ options = [last.options EXCEPT
                           !.exclusive = Some(SubSeq(args[last.i], 13, Len(args[last.i])))]
          /\ errors = last.errors
          /\ i = last.i + 1

\* "--exclusive 2": "user" is stored and "2" is still to be examined
C15_Witness ==
    /\ last.op = "option"
    /\ phase = "parse"
    /\ args = <<ExclusiveFlag, <<"2">> >>
    /\ i = 2
    /\ options.exclusive = Some(<<"u","s","e","r">>)

\* "--exclusive=1:1": the inline string is stored
C15_WitnessInline ==
    /\ last.op = "option"
    /\ phase = "parse"
    /\ args = << ExclusiveFlag \o <<"=","1",":","1">> >>
    /\ options.exclusive = Some(<<"1",":","1">>)

\* C16: dispatching an argument that contains "=" assigns the text after its
\* first "=" (further "=" included) to the option spelled before it, and
\* advances by one argument, for a spelling of the alias table or not, with
\* an error appended or not.
C16_InlineForm ==
    (last.op = "option" /\ HasEq(args[last.i])) =>
        LET A == args[last.i]
        IN  \E k \in 1..Len(A) :
              /\ A[k] = "="
              /\ \A j \in 1..(k - 1) : A[j] # "="
              /\ LET o == SubSeq(A, 1, k - 1)
                     v == SubSeq(A, k + 1, Len(A))
                     r == SetOption(last.options, last.errors, o, PyStr(v))
                 IN  /\ options = r.options
                     /\ errors = r.errors
                     /\ o \notin DOMAIN OPTION_ALIASES =>
                           /\ errors = last.errors
                           /\ \E n \in 1..Len(options.extra_options) :
                                 options.extra_options[n] =
                                     [key |-> OptionName(o), value |-> PyStr(v)]
                     /\ (o \in DOMAIN OPTION_ALIASES /\ OPTION_ALIASES[o] \notin IntFields) =>
                           options[OPTION_ALIASES[o]] = Some(v)
              /\ errors = last.errors \/ OneErrorAppended
              /\ i = last.i + 1
              /\ pc = "scanning"

\* "--mem=1=1": mem holds "1=1", the memory error is recorded, one argument
\* has been consumed
C16_Witness ==
    /\ last.op = "option"
    /\ phase = "parse"
    /\ args = << <<"-","-","m","e","m","=","1","=","1">> >>
    /\ options.mem = Some(<<"1","=","1">>)
    /\ Len(errors) = 1
    /\ i = 2

\* "--foo-bar=a=b 2": the unknown option holds "a=b" and "2" is still to be
\* examined
C16_WitnessUnknown ==
    /\ last.op = "option"
    /\ phase = "parse"
    /\ args = << <<"-","-","f","o","o","-","b","a","r","=","a","=","b">>, <<"2">> >>
    /\ options.extra_options =
           <<[key |-> <<"f","o","o","_","b","a","r">>, value |-> PyStr(<<"a","=","b">>)]>>
    /\ i = 2

AllDigits(s) == Len(s) >= 1 /\ \A k \in 1..Len(s) : s[k] \in Digit

\* one or two digits, colon, two digits, colon, two digits
ShapeHours(s) ==
    \E h \in 1..2 :
        /\ Len(s) = h + 6
        /\ AllDigits(SubSeq(s, 1, h))
        /\ s[h + 1] = ":"
        /\ AllDigits(SubSeq(s, h + 2, h + 3))
        /\ s[h + 4] = ":"
        /\ AllDigits(SubSeq(s, h + 5, h + 6))

\* one or more digits, dash, then the shape above
ShapeDays(s) ==
    \E d \in 1..(Len(s) - 1) :
        /\ AllDigits(SubSeq(s, 1, d))
        /\ s[d + 1] = "-"
        /\ ShapeHours(Drop(s, d + 2))

TimeShape(s) == AllDigits(s) \/ ShapeDays(s) \/ ShapeHours(s)

\* the last step assigned a value to the time field
LastTime == (LastInline \/ LastSeparate) /\ LastField = "time"

\* C17: an assignment to time appends no error if and only if the value is all
\* digits, or digits, dash, 1-2 digits, colon, 2 digits, colon, 2 digits, or
\* 1-2 digits, colon, 2 digits, colon, 2 digits; numeric ranges are not
\* checked and every other string gets one error.
C17_TimeShapes ==
    LastTime =>
        /\ TimeShape(LastValue) => errors = last.errors
        /\ ~TimeShape(LastValue) => OneErrorAppended

\* the scan is at an argument that _parse_option consumes together with the
\* next one: a value-bearing alias without "=" followed by an argument without
\* a dash
TakesTwo(a, k) == ValueAliasAt(a, k) /\ k < Len(a) /\ ~StartsWithDash(a[k + 1])

\* C18 (safety part): a dispatch advances the position by two arguments when a
\* value-bearing alias without "=" is followed by an argument without a dash
\* and by one otherwise; the position never passes the end of the arguments by
\* more than the loop's exit test needs; when the arguments are exhausted the
\* remainder is empty.
C18_Progress ==
    /\ last.op = "option" =>
          i = last.i + (IF TakesTwo(args, last.i) THEN 2 ELSE 1)
    /\ i \in 1..(Len(args) + 1)
    /\ (pc = "done" /\ last.op = "exhausted") =>
          /\ i = Len(args) + 1
          /\ remainder = <<>>

\* C18 (termination part): every parse that has been entered returns or
\* leaves through the help exit.
C18_Terminates == (pc = "scanning") ~> (pc \in {"done", "exit"})

\* C18: the safety part at every state, and the termination part
C18_ProgressAndTermination == []C18_Progress /\ C18_Terminates

\* "-N 2 -N" has been read to its end: 2, then 1 argument consumed
C18_Witness ==
    /\ pc = "done"
    /\ last.op = "exhausted"
    /\ phase = "parse"
    /\ args = << <<"-","N">>, <<"2">>, <<"-","N">> >>
    /\ i = 4
    /\ Len(errors) = 1
    /\ remainder = <<>>

\* the arguments dispatched as options before position k of a
Dispatched(a, k) == {n \in 1..(k - 1) : StartsWithDash(a[n])}

\* C19: across every step of a parse the errors before the step are a prefix
\* of the errors after it, a dispatch appends at most one entry and no other
\* step appends any; the number of errors is at most the number of option
\* arguments dispatched so far.
C19_ErrorsAppendOnly ==
    /\ last.op \in {"call", "positional", "terminator", "help", "exhausted"} =>
          errors = last.errors
    /\ last.op = "option" => (errors = last.errors \/ OneErrorAppended)
    /\ Len(errors) <= Cardinality(Dispatched(args, i))

\* "-N=4X --mem=4X": two dispatches, two errors, the first one kept in place
C19_Witness ==
    /\ last.op = "option"
    /\ phase = "parse"
    /\ args = << <<"-","N","=","4","X">>, <<"-","-","m","e","m","=","4","X">> >>
    /\ i = 3
    /\ Len(errors) = 2
    /\ Len(last.errors) = 1
    /\ errors[1] = last.errors[1]

\* argument k of a, dispatched as an option, assigns a value to field f
AssignAt(a, k, f) ==
    /\ StartsWithDash(a[k])
    /\ IF HasEq(a[k])
       THEN /\ SplitEq(a[k]).option \in DOMAIN OPTION_ALIASES
            /\ OPTION_ALIASES[SplitEq(a[k]).option] = f
       ELSE /\ a[k] \in DOMAIN OPTION_ALIASES
            /\ OPTION_ALIASES[a[k]] = f
            /\ f # "exclusive" => (k < Len(a) /\ ~StartsWithDash(a[k + 1]))

\* the string that assignment passes on ("user" for a bare --exclusive)
AssignedAt(a, k) ==
    IF HasEq(a[k]) THEN SplitEq(a[k]).value
    ELSE IF a[k] = ExclusiveFlag THEN <<"u","s","e","r">>
    ELSE a[k + 1]

Highest(S) == CHOOSE k \in S : \A n \in S : n <= k

\* the assignments to f made so far, and those whose value int() accepts
Assignments(f) == {k \in Dispatched(args, i) : AssignAt(args, k, f)}
Conversions(f) == {k \in Assignments(f) : IntOk(AssignedAt(args, k))}

\* C20: at every point of a parse a string, time or memory field holds the
\* value of the last assignment made to it so far, accepted by its grammar or
\* not; an integer field holds the value of the last assignment that int()
\* converted, later failed conversions leaving it in place; a field never
\* assigned (or never converted) is unset.
C20_LastWriteWins ==
    \A f \in Fields :
        IF f \in IntFields
        THEN options[f] =
                 IF Conversions(f) = {} THEN None
                 ELSE Some(IntValue(AssignedAt(args, Highest(Conversions(f)))))
        ELSE options[f] =
                 IF Assignments(f) = {} THEN None
                 ELSE Some(AssignedAt(args, Highest(Assignments(f))))

\* "--time 2 --time=4X": time holds the later, malformed value
C20_Witness ==
    /\ pc = "done"
    /\ phase = "parse"
    /\ args = << <<"-","-","t","i","m","e">>, <<"2">>,
                 <<"-","-","t","i","m","e","=","4","X">> >>
    /\ options.time = Some(<<"4","X">>)
    /\ Len(errors) = 1

\* "-N 2 --nodes=4X": nodes keeps the earlier, converted value
C20_WitnessInt ==
    /\ pc = "done"
    /\ phase = "parse"
    /\ args = << <<"-","N">>, <<"2">>, <<"-","-","n","o","d","e","s","=","4","X">> >>
    /\ options.nodes = Some(2)
    /\ Len(errors) = 1

\* "-p 2 --partition=3": partition holds the later value
C20_WitnessStr ==
    /\ pc = "done"
    /\ phase = "parse"
    /\ args = << <<"-","p">>, <<"2">>,
                 <<"-","-","p","a","r","t","i","t","i","o","n","=","3">> >>
    /\ options.partition = Some(<<"3">>)
    /\ errors = <<>>

=============================================================================
